---- MODULE Spec2Model ----
(***************************************************************************)
(* Crash-game round engine (src/game/GameEngine.js) with its provably-fair *)
(* outcome generator (ProvablyFair.js, src/unnamed/part_001).              *)
(*                                                                         *)
(* Node.js runs one callback at a time, so every action below is one       *)
(* synchronous segment of the source: a handler from its entry to its      *)
(* first await, or from the resumption of one await to the next.  A        *)
(* database call takes effect in the step that resumes its await and may   *)
(* fail there (the promise rejects).                                       *)
(*                                                                         *)
(* Multipliers are kept in hundredths (1.92x is 192); amounts and balances *)
(* are whole currency units; times are milliseconds.                       *)
(***************************************************************************)
EXTENDS Integers, Sequences, FiniteSets, Bags, TLC

\* ------------------------------------------------------------------ bounds
MaxRounds == 2          \* round objects created in one run
MaxHandlers == 2        \* player-action handlers suspended at an await at once
MaxElapsedSteps == 2    \* flight clock: elapsed time observed by ticks, in steps
ElapsedStep == 3000     \* milliseconds per step of the flight clock
InitialBalance == 1     \* balance of every account before the first round
DrawHexDigits == 3      \* leading hex digits of the digest that are not zero
MaxDisturbances == 1    \* rejected database calls, stopLoop and
                        \* adjustMultiplier calls in one run, taken together
MaxRouteCalls == 3      \* HTTP requests to the REST routes in one run
MaxRouteHandlers == 2   \* route handlers suspended at an await at once

\* --------------------------------------------------------- domain of inputs
Identities == {1}                 \* telegramId of the registered accounts
Amounts == {0, 1}                 \* amount field of a placeBet message
AdminTargets == {150}             \* newTarget of adjustMultiplier, hundredths
JitterMs == {0, 1999}             \* Math.random() * 2000 in _calculateProgress
Exponents == {50, 75}             \* 0.5 + Math.random() * 0.3, in hundredths
WithdrawAmounts == {0, 1}         \* amount field of POST /withdraw
Payouts == {5}                    \* payout field of POST /cashout

\* Defaults of the bet limits in the settings collection.
minBet == 1
maxBet == 1000

\* A run is explored under one of these environments: several rounds with one
\* player handler in flight at a time and some disturbance; one round fewer
\* with handlers racing; a short round; one round with a funded account and a
\* stake above the limits; and a longer run of stops and restarts without
\* players.  seeds is the sequence of values that generateServerSeed returns,
\* round after round; amounts are the amount fields of the placeBet messages
\* and balance is that of every account before the first round.
Scenarios ==
    {[rounds |-> MaxRounds, handlers |-> MaxHandlers - 1,
      disturbances |-> MaxDisturbances, seeds |-> <<1, 2>>,
      amounts |-> Amounts, balance |-> InitialBalance],
     [rounds |-> MaxRounds - 1, handlers |-> MaxHandlers,
      disturbances |-> MaxDisturbances - 1, seeds |-> <<1>>,
      amounts |-> Amounts, balance |-> InitialBalance],
     [rounds |-> MaxRounds - 1, handlers |-> MaxHandlers - 1,
      disturbances |-> MaxDisturbances, seeds |-> <<2>>,
      amounts |-> Amounts, balance |-> InitialBalance],
     [rounds |-> MaxRounds - 1, handlers |-> MaxHandlers - 1,
      disturbances |-> MaxDisturbances - 1, seeds |-> <<1>>,
      amounts |-> {0, maxBet + 1}, balance |-> maxBet + InitialBalance],
     [rounds |-> MaxRounds + 1, handlers |-> MaxHandlers - 2,
      disturbances |-> MaxDisturbances + 1, seeds |-> <<0, 2>>,
      amounts |-> Amounts, balance |-> InitialBalance]}

\* ------------------------------------------------------- program constants
HouseEdgePct == 4
MinMultiplier == 101
MaxMultiplierCap == 100000
VerifyTolerance == 1
minGameDuration == 2000
AdminMaxTarget == 10000
CrashThresholdPermille == 999

Max(a, b) == IF a >= b THEN a ELSE b
Min(a, b) == IF a <= b THEN a ELSE b

RECURSIVE Pow(_, _)
Pow(b, n) == IF n = 0 THEN 1 ELSE b * Pow(b, n - 1)

\* ============================================================ ProvablyFair
\* SHA-256 of the seed: a one-way digest, distinct for distinct seeds.
hashServerSeed(seed) == <<"sha256", seed>>

\* Number of values of the 13-hex-digit draw, Math.pow(16, 13), scaled to the
\* digits the model keeps.
DrawRange == Pow(16, DrawHexDigits)

\* Leading three hex digits of the HMAC-SHA256 digest for each combined seed;
\* the remaining digits of the draw are zero.  0 is the degenerate draw,
\* 2048 is e = 0.5, 4095 the largest e.
DigestTable == <<0, 2048, 4095, 41>>

\* parseInt(hmac.slice(0, 13), 16) for the combined seed
\* `${serverSeed}-${clientSeed}-${nonce}`.
HmacDraw(serverSeed, clientSeed, nonce) ==
    DigestTable[((serverSeed + 2 * clientSeed + 3 * nonce) % Len(DigestTable)) + 1]
        * Pow(16, DrawHexDigits - 3)

\* Math.round(x) for x = n / d >= 0: floor(x + 0.5).
RoundDiv(n, d) == (2 * n + d) \div (2 * d)

\* Variant of CrashMultiplierOf without the test for e === 0: the quotient
\* by zero is Infinity, which the upper clamp turns into the cap.
CrashMultiplierOf_NoZeroTest(num) ==
    LET n == (100 - HouseEdgePct) * DrawRange
    IN  IF n < MinMultiplier * num THEN MinMultiplier
        ELSE IF num <= (n - 1) \div MaxMultiplierCap THEN MaxMultiplierCap
        ELSE RoundDiv(n, num)

\* Variant of CrashMultiplierOf without the lower clamp.
CrashMultiplierOf_NoMinimum(num) ==
    IF num = 0
    THEN 100
    ELSE LET n == (100 - HouseEdgePct) * DrawRange
         IN  IF num <= (n - 1) \div MaxMultiplierCap THEN MaxMultiplierCap
             ELSE RoundDiv(n, num)

\* The multiplier of computeCrashMultiplier, in hundredths.
CrashMultiplierOf(num) ==
    IF num = 0
    THEN 100
    ELSE LET n == (100 - HouseEdgePct) * DrawRange   \* raw * 100 = n / num
         IN  IF n < MinMultiplier * num THEN MinMultiplier
             ELSE IF num <= (n - 1) \div MaxMultiplierCap THEN MaxMultiplierCap
             ELSE RoundDiv(n, num)

\* Variant of computeCrashMultiplier that hashes the client seed.
computeCrashMultiplier_HashesClientSeed(serverSeed, clientSeed, nonce) ==
    [multiplier |-> CrashMultiplierOf(HmacDraw(serverSeed, clientSeed, nonce)),
     serverSeedHash |-> hashServerSeed(clientSeed),
     clientSeed |-> clientSeed,
     nonce |-> nonce]

computeCrashMultiplier(serverSeed, clientSeed, nonce) ==
    [multiplier |-> CrashMultiplierOf(HmacDraw(serverSeed, clientSeed, nonce)),
     serverSeedHash |-> hashServerSeed(serverSeed),
     clientSeed |-> clientSeed,
     nonce |-> nonce]

Abs(x) == IF x < 0 THEN -x ELSE x

\* Variant of verifyGameResult that recomputes with the default client seed.
verifyGameResult_DefaultClientSeed(serverSeed, clientSeed, nonce, claimedMultiplier) ==
    Abs(computeCrashMultiplier(serverSeed, 0, nonce).multiplier
        - claimedMultiplier) < VerifyTolerance

verifyGameResult(serverSeed, clientSeed, nonce, claimedMultiplier) ==
    Abs(computeCrashMultiplier(serverSeed, clientSeed, nonce).multiplier
        - claimedMultiplier) < VerifyTolerance


\* ============================================================== GameEngine
VARIABLES
    scenario,         \* the environment of this run, fixed by Init
    running,          \* this.running
    gameState,        \* this.gameState
    round,            \* this.round (NoRound while null)
    activeBets,       \* this.activeBets: Map keyed by String(telegramId)
    totalRounds,      \* this.roundStats.totalRounds
    roundTimeout,     \* this._roundTimeout: "none", "pending", or "stale"
    orphanTimeouts,   \* pending betting timers whose handle was overwritten
    updateTimer,      \* this._updateTimer: "null", "active", or "cleared"
    orphanIntervals,  \* live tick intervals whose handle was overwritten
    nextRoundTimers,  \* pending setTimeout(... _startNewRound ...) callbacks
    handlers,         \* bag of placeBet / cashOut handlers suspended at an await
    crashes,          \* _crashGame invocations suspended at an await
    balance,          \* User collection: balance of each account
    ledger,           \* Transaction collection, a bag of entries
    archive,          \* GameRound collection
    roundCount,       \* round objects created so far (uuidv4 stand-in)
    emitted,          \* events emitted by the latest step, in order
    published,        \* history: bag of <<kind, roundId>> of lifecycle events
    arrival,          \* the player message the latest step received, if any
    disturbances,     \* rejected database calls, stopLoop and adjustMultiplier
                      \* calls so far
    call,             \* the latest call of a ProvablyFair function made from
                      \* outside the engine (the smoke test, a verifying client)
    routes            \* the REST routes: the Withdraw collection, the route
                      \* handlers suspended at an await, the requests
                      \* received so far and the latest response

engineVars == <<scenario, running, gameState, round, activeBets, totalRounds,
                roundTimeout, orphanTimeouts, updateTimer, orphanIntervals,
                nextRoundTimers, handlers, crashes, balance, ledger, archive,
                roundCount, emitted, published, arrival, disturbances>>

vars == <<engineVars, call, routes>>

NoRound == [id |-> 0, serverSeed |-> 0, seedHash |-> <<"none", 0>>,
            targetMultiplier |-> 0, currentMultiplier |-> 100,
            phase |-> "none", elapsed |-> 0]

NoArrival == [op |-> "none", telegramId |-> 0]

NoRoutes == [requests |-> << >>, handlers |-> << >>, calls |-> 0,
             response |-> "none"]

NoCall == [fn |-> "none", serverSeed |-> 0, clientSeed |-> 0, nonce |-> 0,
           num |-> 0, claimedMultiplier |-> 0, multiplier |-> 0,
           serverSeedHash |-> <<"none", 0>>, verified |-> FALSE]

One(x) == SetToBag({x})

Count(bag, x) == CopiesIn(x, bag)

\* A new handler can be suspended at an await.
HasFreeSlot == BagCardinality(handlers) < scenario.handlers

Handler(op, pc, telegramId, amount) ==
    [op |-> op, pc |-> pc, telegramId |-> telegramId, amount |-> amount,
     bal |-> 0, payout |-> 0, multiplier |-> 0, roundId |-> 0]

\* socket.emit('error', {code})
ErrorEvent(code) == [kind |-> "error", code |-> code]

LedgerEntry(type, userId, amount, roundId) ==
    [type |-> type, userId |-> userId, amount |-> amount, roundId |-> roundId]

\* generateServerSeed() for the next round object.
generateServerSeed ==
    scenario.seeds[(roundCount % Len(scenario.seeds)) + 1]

\* A database call resolves (ok) or rejects, within the bound on disturbances.
Outcome(ok) ==
    /\ ok \/ disturbances < scenario.disturbances
    /\ disturbances' = IF ok THEN disturbances ELSE disturbances + 1

Disturb ==
    /\ disturbances < scenario.disturbances
    /\ disturbances' = disturbances + 1

Init ==
    /\ scenario \in Scenarios
    /\ running = FALSE
    /\ gameState = "waiting"
    /\ round = NoRound
    /\ activeBets = << >>
    /\ totalRounds = 0
    /\ roundTimeout = "none"
    /\ orphanTimeouts = 0
    /\ updateTimer = "null"
    /\ orphanIntervals = 0
    /\ nextRoundTimers = 0
    /\ handlers = EmptyBag
    /\ crashes = {}
    /\ balance = [i \in Identities |-> scenario.balance]
    /\ ledger = EmptyBag
    /\ archive = {}
    /\ roundCount = 0
    /\ emitted = << >>
    /\ published = EmptyBag
    /\ arrival = NoArrival
    /\ disturbances = 0
    /\ call = NoCall
    /\ routes = NoRoutes

\* ------------------------------------------------------------ round start
\* The round object _startNewRound creates from a fresh server seed.
NewRound(id, serverSeed) ==
    [id |-> id,
     serverSeed |-> serverSeed,
     seedHash |-> hashServerSeed(serverSeed),
     targetMultiplier |-> computeCrashMultiplier(serverSeed, 0, 0).multiplier,
     currentMultiplier |-> 100,
     phase |-> "betting",
     elapsed |-> 0]

\* The game:bettingPhase event of a round.
BettingPhaseEvent(rnd) ==
    [kind |-> "game:bettingPhase", roundId |-> rnd.id, seedHash |-> rnd.seedHash]

\* Variant of StartNewRound without this.activeBets.clear().
StartNewRound_KeepsBets ==
    /\ roundCount < scenario.rounds
    /\ roundCount' = roundCount + 1
    /\ round' = NewRound(roundCount + 1, generateServerSeed)
    /\ activeBets' = activeBets
    /\ gameState' = "betting"
    /\ emitted' = << BettingPhaseEvent(round') >>
    /\ published' = published (+) One(<<"game:bettingPhase", roundCount + 1>>)
    /\ roundTimeout' = "pending"
    /\ orphanTimeouts' = IF roundTimeout = "pending" THEN orphanTimeouts + 1
                         ELSE orphanTimeouts

\* _startNewRound once this.running has been found true.
StartNewRound ==
    /\ roundCount < scenario.rounds
    /\ roundCount' = roundCount + 1
    /\ round' = NewRound(roundCount + 1, generateServerSeed)
    /\ activeBets' = << >>
    /\ gameState' = "betting"
    /\ emitted' = << BettingPhaseEvent(round') >>
    /\ published' = published (+) One(<<"game:bettingPhase", roundCount + 1>>)
    /\ roundTimeout' = "pending"
    /\ orphanTimeouts' = IF roundTimeout = "pending" THEN orphanTimeouts + 1
                         ELSE orphanTimeouts

startLoop ==
    /\ ~running
    /\ running' = TRUE
    /\ StartNewRound
    /\ arrival' = NoArrival
    /\ UNCHANGED <<call, routes, scenario, totalRounds, updateTimer, orphanIntervals,
                   nextRoundTimers, handlers, crashes, balance, ledger, archive,
                   disturbances>>

stopLoop ==
    /\ Disturb
    /\ running' = FALSE
    /\ roundTimeout' = IF roundTimeout = "pending" THEN "stale" ELSE roundTimeout
    /\ updateTimer' = IF updateTimer = "active" THEN "cleared" ELSE updateTimer
    /\ emitted' = << >>
    /\ arrival' = NoArrival
    /\ UNCHANGED <<call, routes, scenario, gameState, round, activeBets, totalRounds,
                   orphanTimeouts, orphanIntervals, nextRoundTimers, handlers,
                   crashes, balance, ledger, archive, roundCount, published>>

\* Variant of NextRoundTimer whose callback does not test this.running.
NextRoundTimer_IgnoresRunning ==
    /\ nextRoundTimers > 0
    /\ nextRoundTimers' = nextRoundTimers - 1
    /\ arrival' = NoArrival
    /\ StartNewRound
    /\ UNCHANGED <<call, routes, scenario, running, totalRounds, updateTimer, orphanIntervals,
                   handlers, crashes, balance, ledger, archive, disturbances>>

\* The callback of the setTimeout at the end of _crashGame.
NextRoundTimer ==
    /\ nextRoundTimers > 0
    /\ nextRoundTimers' = nextRoundTimers - 1
    /\ arrival' = NoArrival
    /\ IF running
       THEN StartNewRound
       ELSE /\ emitted' = << >>
            /\ UNCHANGED <<roundCount, round, activeBets, gameState, published,
                           roundTimeout, orphanTimeouts>>
    /\ UNCHANGED <<call, routes, scenario, running, totalRounds, updateTimer, orphanIntervals,
                   handlers, crashes, balance, ledger, archive, disturbances>>

\* The game:takeoff event of a round.
TakeoffEvent(rnd) ==
    [kind |-> "game:takeoff", roundId |-> rnd.id,
     targetMultiplier |-> rnd.targetMultiplier]

\* The betting timer fires: _startFlight.
startFlight ==
    /\ \/ /\ roundTimeout = "pending"
          /\ roundTimeout' = "stale"
          /\ orphanTimeouts' = orphanTimeouts
       \/ /\ orphanTimeouts > 0
          /\ orphanTimeouts' = orphanTimeouts - 1
          /\ roundTimeout' = roundTimeout
    /\ arrival' = NoArrival
    /\ IF round.id = 0 \/ ~running
       THEN /\ emitted' = << >>
            /\ UNCHANGED <<round, gameState, published, updateTimer, orphanIntervals>>
       ELSE /\ round' = [round EXCEPT !.phase = "flying", !.elapsed = 0]
            /\ gameState' = "flying"
            /\ emitted' = << TakeoffEvent(round) >>
            /\ published' = published (+) One(<<"game:takeoff", round.id>>)
            /\ updateTimer' = "active"
            /\ orphanIntervals' = IF updateTimer = "active" THEN orphanIntervals + 1
                                  ELSE orphanIntervals
    /\ UNCHANGED <<call, routes, scenario, running, activeBets, totalRounds, nextRoundTimers,
                   handlers, crashes, balance, ledger, archive, roundCount,
                   disturbances>>


\* ------------------------------------------------------------------ flight
RECURSIVE Log2Floor(_)
Log2Floor(x) == IF x < 2 THEN 0 ELSE 1 + Log2Floor(x \div 2)

\* Math.log(t) * 1000 for the multiplier t (in hundredths), t >= 1.00:
\* exact at the powers of two, interpolated linearly in between.
LnMilli(t) ==
    LET k == Log2Floor(t \div 100)
        lo == 100 * Pow(2, k)
    IN  693 * k + (693 * (t - lo)) \div lo

\* Math.pow(r, q) for r in [0, 1] and q = 0.5 or 0.75, all in hundredths:
\* the p with p^4 <= r^(4q) * 100^(4 - 4q) < (p + 1)^4.
PowFrac(r, q) ==
    LET x == Pow(r, (4 * q) \div 100) * Pow(100, 4 - (4 * q) \div 100)
    IN  CHOOSE p \in 0 .. 100 : p * p * p * p <= x
                                /\ x < (p + 1) * (p + 1) * (p + 1) * (p + 1)

\* Math.pow tabulated for the progress values and the exponents of a run.
PowFracTable == [r \in 0 .. 100, q \in Exponents |-> PowFrac(r, q)]

\* _calculateProgress: the progress ratio in hundredths, for the two random
\* draws jitter = Math.random() * 2000 and q = 0.5 + Math.random() * 0.3.
calculateProgress(elapsed, targetMultiplier, jitter, q) ==
    LET baseDuration == minGameDuration + 3 * LnMilli(targetMultiplier) + jitter
        progress == Min(100, (elapsed * 100) \div baseDuration)
    IN  PowFracTable[progress, q]

\* The multiplier _updateMultiplier stores for a progress ratio.
NextMultiplier(targetMultiplier, progressRatio) ==
    Min(100 + ((targetMultiplier - 100) * progressRatio) \div 100,
        targetMultiplier)

\* The crash test at the end of _updateMultiplier.
ShouldCrash(rnd) ==
    rnd.currentMultiplier * 1000 >= rnd.targetMultiplier * CrashThresholdPermille

\* Variant of ArchiveRecord that reports the round counter of the statistics
\* as the number of bets.
ArchiveRecord_CountsRounds(rnd, bets) ==
    [roundId |-> rnd.id,
     serverSeedHash |-> rnd.seedHash,
     serverSeed |-> rnd.serverSeed,
     finalMultiplier |-> rnd.targetMultiplier,
     totalBets |-> totalRounds + 1,
     totalWagered |-> BagCardinality([k \in DOMAIN bets |-> bets[k].amount])]

\* The record _crashGame passes to GameRound.create.
ArchiveRecord(rnd, bets) ==
    [roundId |-> rnd.id,
     serverSeedHash |-> rnd.seedHash,
     serverSeed |-> rnd.serverSeed,
     finalMultiplier |-> rnd.targetMultiplier,
     totalBets |-> Cardinality(DOMAIN bets),
     totalWagered |-> BagCardinality([k \in DOMAIN bets |-> bets[k].amount])]

\* Variant of CrashGame that does not set this.round.phase.
CrashGame_KeepsPhase(rnd) ==
    /\ updateTimer' = "null"
    /\ round' = rnd
    /\ gameState' = "crashed"
    /\ totalRounds' = totalRounds + 1
    /\ published' = published (+) One(<<"archive:attempt", rnd.id>>)
    /\ crashes' = crashes \cup
         {[n |-> totalRounds + 1,
           pc |-> "archive",
           finalMultiplier |-> rnd.targetMultiplier,
           record |-> ArchiveRecord(rnd, activeBets),
           losingBets |-> << >>,
           lossRound |-> 0]}

\* The synchronous head of _crashGame, entered with gameState = 'flying':
\* everything up to the await on GameRound.create.
CrashGame(rnd) ==
    /\ updateTimer' = "null"
    /\ round' = [rnd EXCEPT !.phase = "crashed"]
    /\ gameState' = "crashed"
    /\ totalRounds' = totalRounds + 1
    /\ published' = published (+) One(<<"archive:attempt", rnd.id>>)
    /\ crashes' = crashes \cup
         {[n |-> totalRounds + 1,
           pc |-> "archive",
           finalMultiplier |-> rnd.targetMultiplier,
           record |-> ArchiveRecord(rnd, activeBets),
           losingBets |-> << >>,
           lossRound |-> 0]}

\* One firing of a tick interval: _updateMultiplier, and the head of
\* _crashGame when the multiplier has reached the crash threshold.
updateMultiplier ==
    /\ updateTimer = "active" \/ orphanIntervals > 0
    /\ arrival' = NoArrival
    /\ IF round.id = 0 \/ gameState # "flying"
       THEN /\ emitted' = << >>
            /\ UNCHANGED <<round, gameState, totalRounds, updateTimer, crashes,
                           published>>
       ELSE \E step \in {0, 1}, jitter \in JitterMs, q \in Exponents :
              LET elapsed == Min(round.elapsed + step * ElapsedStep,
                                  MaxElapsedSteps * ElapsedStep)
                  rnd == [round EXCEPT
                            !.elapsed = elapsed,
                            !.currentMultiplier =
                               NextMultiplier(round.targetMultiplier,
                                  calculateProgress(elapsed, round.targetMultiplier,
                                                    jitter, q))]
              IN  /\ emitted' = << [kind |-> "game:multiplierUpdate",
                                    roundId |-> rnd.id,
                                    multiplier |-> rnd.currentMultiplier] >>
                  /\ IF ShouldCrash(rnd)
                     THEN CrashGame(rnd)
                     ELSE /\ round' = rnd
                          /\ UNCHANGED <<gameState, totalRounds, updateTimer,
                                         crashes, published>>
    /\ UNCHANGED <<call, routes, scenario, running, activeBets, roundTimeout, orphanTimeouts,
                   orphanIntervals, nextRoundTimers, handlers, balance, ledger,
                   archive, roundCount, disturbances>>

\* Admin: forceEndRound.
forceEndRound ==
    /\ arrival' = NoArrival
    /\ emitted' = << >>
    /\ IF gameState = "flying" /\ round.id # 0
       THEN CrashGame(round)
       ELSE UNCHANGED <<round, gameState, totalRounds, updateTimer, crashes,
                        published>>
    /\ UNCHANGED <<call, routes, scenario, running, activeBets, roundTimeout, orphanTimeouts,
                   orphanIntervals, nextRoundTimers, handlers, balance, ledger,
                   archive, roundCount, disturbances>>

\* The target adjustMultiplier stores.
AdjustedTarget(rnd, newTarget) ==
    Max(MinMultiplier, Min(AdminMaxTarget, newTarget))

\* Admin: adjustMultiplier(newTarget).
adjustMultiplier(newTarget) ==
    /\ Disturb
    /\ arrival' = NoArrival
    /\ emitted' = << >>
    /\ round' = IF gameState = "flying" /\ round.id # 0
                THEN [round EXCEPT !.targetMultiplier =
                                       AdjustedTarget(round, newTarget)]
                ELSE round
    /\ UNCHANGED <<call, routes, scenario, running, gameState, activeBets, totalRounds,
                   roundTimeout, orphanTimeouts, updateTimer, orphanIntervals,
                   nextRoundTimers, handlers, crashes, balance, ledger, archive,
                   roundCount, published>>

\* -------------------------------------------------------------- settlement
\* Array.from(this.activeBets.values()).filter(bet => !bet.cashedOut)
LosingBets ==
    LET RECURSIVE InOrder(_)
        InOrder(S) == IF S = {} THEN << >>
                      ELSE LET k == CHOOSE x \in S : \A y \in S : x <= y
                           IN  <<activeBets[k]>> \o InOrder(S \ {k})
    IN  InOrder({k \in DOMAIN activeBets : ~activeBets[k].cashedOut})

\* The game:crashed event _crashGame emits after the archive save.
CrashedEvent(c, rnd) ==
    [kind |-> "game:crashed", roundId |-> rnd.id,
     finalMultiplier |-> c.finalMultiplier, serverSeed |-> rnd.serverSeed]

\* Variant of CrashAfterArchive whose catch block schedules no next round.
CrashAfterArchive_NoRetry(c, ok) ==
    /\ c \in crashes
    /\ c.pc = "archive"
    /\ Outcome(ok)
    /\ arrival' = NoArrival
    /\ IF ok /\ ~(\E a \in archive : a.roundId = c.record.roundId)
       THEN /\ archive' = archive \cup {c.record}
            /\ emitted' = << CrashedEvent(c, round) >>
            /\ IF LosingBets = << >>
               THEN /\ crashes' = crashes \ {c}
                    /\ nextRoundTimers' = nextRoundTimers + 1
                    /\ published' = published (+) One(<<"game:crashed", round.id>>)
                                              (+) One(<<"losses:start", round.id>>)
                                              (+) One(<<"settled", c.record.roundId>>)
               ELSE /\ crashes' = (crashes \ {c}) \cup
                          {[c EXCEPT !.pc = "loss", !.losingBets = LosingBets,
                                     !.lossRound = round.id]}
                    /\ nextRoundTimers' = nextRoundTimers
                    /\ published' = published (+) One(<<"game:crashed", round.id>>)
                                              (+) One(<<"losses:start", round.id>>)
       ELSE /\ archive' = archive
            /\ emitted' = << >>
            /\ crashes' = crashes \ {c}
            /\ nextRoundTimers' = nextRoundTimers
            /\ published' = published (+) One(<<"settlement:aborted", c.record.roundId>>)
    /\ UNCHANGED <<call, routes, scenario, running, gameState, round, activeBets, totalRounds,
                   roundTimeout, orphanTimeouts, updateTimer, orphanIntervals,
                   handlers, balance, ledger, roundCount>>

\* GameRound.create resolves or rejects (it rejects a second record for a
\* roundId: the field is unique).  On success the crashed event is emitted and
\* _processLosingBets starts; on failure the catch block schedules the next
\* round.
CrashAfterArchive(c, ok) ==
    /\ c \in crashes
    /\ c.pc = "archive"
    /\ Outcome(ok)
    /\ arrival' = NoArrival
    /\ IF ok /\ ~(\E a \in archive : a.roundId = c.record.roundId)
       THEN /\ archive' = archive \cup {c.record}
            /\ emitted' = << CrashedEvent(c, round) >>
            /\ IF LosingBets = << >>
               THEN /\ crashes' = crashes \ {c}
                    /\ nextRoundTimers' = nextRoundTimers + 1
                    /\ published' = published (+) One(<<"game:crashed", round.id>>)
                                              (+) One(<<"losses:start", round.id>>)
                                              (+) One(<<"settled", c.record.roundId>>)
               ELSE /\ crashes' = (crashes \ {c}) \cup
                          {[c EXCEPT !.pc = "loss", !.losingBets = LosingBets,
                                     !.lossRound = round.id]}
                    /\ nextRoundTimers' = nextRoundTimers
                    /\ published' = published (+) One(<<"game:crashed", round.id>>)
                                              (+) One(<<"losses:start", round.id>>)
       ELSE /\ archive' = archive
            /\ emitted' = << >>
            /\ crashes' = crashes \ {c}
            /\ nextRoundTimers' = nextRoundTimers + 1
            /\ published' = published (+) One(<<"settlement:aborted", c.record.roundId>>)
    /\ UNCHANGED <<call, routes, scenario, running, gameState, round, activeBets, totalRounds,
                   roundTimeout, orphanTimeouts, updateTimer, orphanIntervals,
                   handlers, balance, ledger, roundCount>>

\* Variant of CrashAfterLoss that also puts the stake of the bet back on the
\* account.
CrashAfterLoss_ReturnsStake(c, ok) ==
    /\ c \in crashes
    /\ c.pc = "loss"
    /\ Outcome(ok)
    /\ arrival' = NoArrival
    /\ emitted' = << >>
    /\ balance' = [balance EXCEPT ![Head(c.losingBets).telegramId] =
                                     @ + Head(c.losingBets).amount]
    /\ ledger' = IF ok
                 THEN ledger (+) One(LedgerEntry("loss",
                          Head(c.losingBets).telegramId,
                          Head(c.losingBets).amount, c.lossRound))
                 ELSE ledger
    /\ IF Len(c.losingBets) > 1
       THEN /\ crashes' = (crashes \ {c}) \cup
                  {[c EXCEPT !.losingBets = Tail(c.losingBets),
                             !.lossRound = round.id]}
            /\ UNCHANGED <<nextRoundTimers, published>>
       ELSE /\ crashes' = crashes \ {c}
            /\ nextRoundTimers' = nextRoundTimers + 1
            /\ published' = published (+) One(<<"settled", c.record.roundId>>)
    /\ UNCHANGED <<call, routes, scenario, running, gameState, round, activeBets, totalRounds,
                   roundTimeout, orphanTimeouts, updateTimer, orphanIntervals,
                   handlers, archive, roundCount>>

\* Transaction.create for the first remaining losing bet resolves or rejects;
\* the loop goes on to the next bet or _processLosingBets returns.
CrashAfterLoss(c, ok) ==
    /\ c \in crashes
    /\ c.pc = "loss"
    /\ Outcome(ok)
    /\ arrival' = NoArrival
    /\ emitted' = << >>
    /\ ledger' = IF ok
                 THEN ledger (+) One(LedgerEntry("loss",
                          Head(c.losingBets).telegramId,
                          Head(c.losingBets).amount, c.lossRound))
                 ELSE ledger
    /\ IF Len(c.losingBets) > 1
       THEN /\ crashes' = (crashes \ {c}) \cup
                  {[c EXCEPT !.losingBets = Tail(c.losingBets),
                             !.lossRound = round.id]}
            /\ UNCHANGED <<nextRoundTimers, published>>
       ELSE /\ crashes' = crashes \ {c}
            /\ nextRoundTimers' = nextRoundTimers + 1
            /\ published' = published (+) One(<<"settled", c.record.roundId>>)
    /\ UNCHANGED <<call, routes, scenario, running, gameState, round, activeBets, totalRounds,
                   roundTimeout, orphanTimeouts, updateTimer, orphanIntervals,
                   handlers, balance, archive, roundCount>>


\* ---------------------------------------------------------------- placeBet
Key(telegramId) == telegramId      \* String(telegramId)

Put(map, k, v) == [x \in DOMAIN map \cup {k} |-> IF x = k THEN v ELSE map[x]]

Suspend(me) == handlers' = handlers (+) One(me)

Resume(me, next) == handlers' = (handlers (-) One(me)) (+) One(next)

Finish(me) == handlers' = handlers (-) One(me)

Suspended(op, pc) == {me \in BagToSet(handlers) : me.op = op /\ me.pc = pc}

\* Variant of PlaceBetCheck without the phase test.
PlaceBetCheck_NoPhaseTest(telegramId, amount) ==
    IF telegramId = 0 \/ amount = 0 \/ amount < 1 THEN "INVALID_BET"
    ELSE IF Key(telegramId) \in DOMAIN activeBets THEN "EXISTING_BET"
    ELSE "ok"

\* Variant of PlaceBetCheck without the test of the registry.
PlaceBetCheck_NoDuplicateTest(telegramId, amount) ==
    IF gameState # "betting" THEN "INVALID_PHASE"
    ELSE IF telegramId = 0 \/ amount = 0 \/ amount < 1 THEN "INVALID_BET"
    ELSE "ok"

\* socket.on('placeBet'): the checks before the first await.
PlaceBetCheck(telegramId, amount) ==
    IF gameState # "betting" THEN "INVALID_PHASE"
    ELSE IF telegramId = 0 \/ amount = 0 \/ amount < 1 THEN "INVALID_BET"
    ELSE IF Key(telegramId) \in DOMAIN activeBets THEN "EXISTING_BET"
    ELSE "ok"

placeBet(telegramId, amount) ==
    /\ arrival' = [op |-> "placeBet", telegramId |-> telegramId]
    /\ IF PlaceBetCheck(telegramId, amount) # "ok"
       THEN /\ emitted' = << ErrorEvent(PlaceBetCheck(telegramId, amount)) >>
            /\ handlers' = handlers
       ELSE /\ HasFreeSlot
            /\ emitted' = << >>
            /\ Suspend(Handler("placeBet", "findOne", telegramId, amount))
    /\ UNCHANGED <<call, routes, scenario, running, gameState, round, activeBets, totalRounds,
                   roundTimeout, orphanTimeouts, updateTimer, orphanIntervals,
                   nextRoundTimers, crashes, balance, ledger, archive,
                   roundCount, published, disturbances>>

\* User.findOne resolves (or rejects): balance check and local debit, then
\* user.save() is called.  No account of the model is banned.
PlaceBetAfterFindOne(me, ok) ==
    /\ me \in Suspended("placeBet", "findOne")
    /\ Outcome(ok)
    /\ arrival' = NoArrival
    /\ IF ~ok
       THEN emitted' = << ErrorEvent("SERVER_ERROR") >> /\ Finish(me)
       ELSE IF me.telegramId \notin DOMAIN balance
       THEN emitted' = << ErrorEvent("USER_NOT_FOUND") >> /\ Finish(me)
       ELSE IF balance[me.telegramId] < me.amount
       THEN emitted' = << ErrorEvent("INSUFFICIENT_FUNDS") >> /\ Finish(me)
       ELSE /\ emitted' = << >>
            /\ Resume(me, [me EXCEPT !.pc = "save",
                                     !.bal = balance[me.telegramId] - me.amount])
    /\ UNCHANGED <<call, routes, scenario, running, gameState, round, activeBets, totalRounds,
                   roundTimeout, orphanTimeouts, updateTimer, orphanIntervals,
                   nextRoundTimers, crashes, balance, ledger, archive,
                   roundCount, published>>

\* user.save() resolves (or rejects); then Transaction.create is called with
\* meta.roundId = this.round.id.
PlaceBetAfterSave(me, ok) ==
    /\ me \in Suspended("placeBet", "save")
    /\ Outcome(ok)
    /\ arrival' = NoArrival
    /\ IF ~ok
       THEN /\ emitted' = << ErrorEvent("SERVER_ERROR") >>
            /\ Finish(me)
            /\ balance' = balance
       ELSE /\ emitted' = << >>
            /\ balance' = [balance EXCEPT ![me.telegramId] = me.bal]
            /\ Resume(me, [me EXCEPT !.pc = "create", !.roundId = round.id])
    /\ UNCHANGED <<call, routes, scenario, running, gameState, round, activeBets, totalRounds,
                   roundTimeout, orphanTimeouts, updateTimer, orphanIntervals,
                   nextRoundTimers, crashes, ledger, archive, roundCount,
                   published>>

\* The bet object placeBet stores.  flips and insertedIn are history: how
\* often cashedOut was set on this object, and the round that was current
\* when it was stored.
NewBet(telegramId, amount, rnd) ==
    [telegramId |-> telegramId, amount |-> amount, cashedOut |-> FALSE,
     payout |-> 0, cashoutMultiplier |-> 0, flips |-> 0, insertedIn |-> rnd.id]

\* Transaction.create resolves (or rejects); the bet is stored and announced.
PlaceBetAfterCreate(me, ok) ==
    /\ me \in Suspended("placeBet", "create")
    /\ Outcome(ok)
    /\ arrival' = NoArrival
    /\ Finish(me)
    /\ IF ~ok
       THEN /\ emitted' = << ErrorEvent("SERVER_ERROR") >>
            /\ UNCHANGED <<ledger, activeBets>>
       ELSE /\ ledger' = ledger (+) One(LedgerEntry("bet", me.telegramId,
                                                     me.amount, me.roundId))
            /\ activeBets' = Put(activeBets, Key(me.telegramId),
                                 NewBet(me.telegramId, me.amount, round))
            /\ emitted' = << [kind |-> "game:betPlaced",
                              telegramId |-> me.telegramId,
                              amount |-> me.amount,
                              totalBets |-> Cardinality(DOMAIN activeBets')],
                             [kind |-> "bet:confirmed", amount |-> me.amount,
                              newBalance |-> me.bal, roundId |-> round.id] >>
    /\ UNCHANGED <<call, routes, scenario, running, gameState, round, totalRounds,
                   roundTimeout, orphanTimeouts, updateTimer, orphanIntervals,
                   nextRoundTimers, crashes, balance, archive, roundCount,
                   published>>

\* ----------------------------------------------------------------- cashOut
\* Variant of CashOutCheck without the test of bet.cashedOut.
CashOutCheck_IgnoresCashedOut(telegramId) ==
    IF Key(telegramId) \notin DOMAIN activeBets THEN "NO_ACTIVE_BET"
    ELSE IF gameState # "flying" THEN "INVALID_PHASE"
    ELSE "ok"

\* Variant of CashOutCheck without the phase test.
CashOutCheck_NoPhaseTest(telegramId) ==
    IF Key(telegramId) \notin DOMAIN activeBets THEN "NO_ACTIVE_BET"
    ELSE IF activeBets[Key(telegramId)].cashedOut THEN "ALREADY_CASHED"
    ELSE "ok"

\* socket.on('cashOut'): the checks before the bet is marked.
CashOutCheck(telegramId) ==
    IF Key(telegramId) \notin DOMAIN activeBets THEN "NO_ACTIVE_BET"
    ELSE IF activeBets[Key(telegramId)].cashedOut THEN "ALREADY_CASHED"
    ELSE IF gameState # "flying" THEN "INVALID_PHASE"
    ELSE "ok"

\* Math.floor(bet.amount * multiplier)
Payout(amount, multiplier) == (amount * multiplier) \div 100

\* The bet after cashOut has marked it.
CashedOut(bet, multiplier) ==
    [bet EXCEPT !.cashedOut = TRUE,
                !.payout = Payout(bet.amount, multiplier),
                !.cashoutMultiplier = multiplier,
                !.flips = bet.flips + 1]

cashOut(telegramId) ==
    /\ arrival' = [op |-> "cashOut", telegramId |-> telegramId]
    /\ IF CashOutCheck(telegramId) # "ok"
       THEN /\ emitted' = << ErrorEvent(CashOutCheck(telegramId)) >>
            /\ UNCHANGED <<handlers, activeBets>>
       ELSE LET bet == activeBets[Key(telegramId)]
                multiplier == round.currentMultiplier
            IN  /\ HasFreeSlot
                /\ emitted' = << >>
                /\ activeBets' = [activeBets EXCEPT ![Key(telegramId)] =
                                      CashedOut(bet, multiplier)]
                /\ Suspend([Handler("cashOut", "findOne", telegramId, bet.amount)
                              EXCEPT !.payout = Payout(bet.amount, multiplier),
                                     !.multiplier = multiplier])
    /\ UNCHANGED <<call, routes, scenario, running, gameState, round, totalRounds,
                   roundTimeout, orphanTimeouts, updateTimer, orphanIntervals,
                   nextRoundTimers, crashes, balance, ledger, archive,
                   roundCount, published, disturbances>>

\* The game:cashOut event.
CashOutEvent(me) ==
    [kind |-> "game:cashOut", telegramId |-> me.telegramId,
     payout |-> me.payout, multiplier |-> me.multiplier, betAmount |-> me.amount]

\* User.findOne resolves (or rejects): local credit, then user.save() is
\* called.  With no user the handler skips the credit, announces the cashout
\* and fails on user.balance in the confirmation.
CashOutAfterFindOne(me, ok) ==
    /\ me \in Suspended("cashOut", "findOne")
    /\ Outcome(ok)
    /\ arrival' = NoArrival
    /\ IF ~ok
       THEN emitted' = << ErrorEvent("SERVER_ERROR") >> /\ Finish(me)
       ELSE IF me.telegramId \notin DOMAIN balance
       THEN /\ emitted' = << CashOutEvent(me), ErrorEvent("SERVER_ERROR") >>
            /\ Finish(me)
       ELSE /\ emitted' = << >>
            /\ Resume(me, [me EXCEPT !.pc = "save",
                                     !.bal = balance[me.telegramId] + me.payout])
    /\ UNCHANGED <<call, routes, scenario, running, gameState, round, activeBets, totalRounds,
                   roundTimeout, orphanTimeouts, updateTimer, orphanIntervals,
                   nextRoundTimers, crashes, balance, ledger, archive,
                   roundCount, published>>

\* user.save() resolves (or rejects); then Transaction.create is called with
\* meta.roundId = this.round.id.
CashOutAfterSave(me, ok) ==
    /\ me \in Suspended("cashOut", "save")
    /\ Outcome(ok)
    /\ arrival' = NoArrival
    /\ IF ~ok
       THEN /\ emitted' = << ErrorEvent("SERVER_ERROR") >>
            /\ Finish(me)
            /\ balance' = balance
       ELSE /\ emitted' = << >>
            /\ balance' = [balance EXCEPT ![me.telegramId] = me.bal]
            /\ Resume(me, [me EXCEPT !.pc = "create", !.roundId = round.id])
    /\ UNCHANGED <<call, routes, scenario, running, gameState, round, activeBets, totalRounds,
                   roundTimeout, orphanTimeouts, updateTimer, orphanIntervals,
                   nextRoundTimers, crashes, ledger, archive, roundCount,
                   published>>

\* Transaction.create resolves (or rejects); the cashout is announced.
CashOutAfterCreate(me, ok) ==
    /\ me \in Suspended("cashOut", "create")
    /\ Outcome(ok)
    /\ arrival' = NoArrival
    /\ Finish(me)
    /\ IF ~ok
       THEN /\ emitted' = << ErrorEvent("SERVER_ERROR") >>
            /\ ledger' = ledger
       ELSE /\ ledger' = ledger (+) One(LedgerEntry("win", me.telegramId,
                                                     me.payout, me.roundId))
            /\ emitted' = << CashOutEvent(me),
                             [kind |-> "cashout:confirmed", payout |-> me.payout,
                              multiplier |-> me.multiplier,
                              newBalance |-> me.bal] >>
    /\ UNCHANGED <<call, routes, scenario, running, gameState, round, activeBets, totalRounds,
                   roundTimeout, orphanTimeouts, updateTimer, orphanIntervals,
                   nextRoundTimers, crashes, balance, archive, roundCount,
                   published>>

\* ------------------------------------------------------------ specification
Next ==
    \/ startLoop
    \/ stopLoop
    \/ NextRoundTimer
    \/ startFlight
    \/ updateMultiplier
    \/ forceEndRound
    \/ \E newTarget \in AdminTargets : adjustMultiplier(newTarget)
    \/ \E c \in crashes, ok \in BOOLEAN : CrashAfterArchive(c, ok)
    \/ \E c \in crashes, ok \in BOOLEAN : CrashAfterLoss(c, ok)
    \/ \E telegramId \in Identities, amount \in scenario.amounts :
          placeBet(telegramId, amount)
    \/ \E me \in BagToSet(handlers), ok \in BOOLEAN : PlaceBetAfterFindOne(me, ok)
    \/ \E me \in BagToSet(handlers), ok \in BOOLEAN : PlaceBetAfterSave(me, ok)
    \/ \E me \in BagToSet(handlers), ok \in BOOLEAN : PlaceBetAfterCreate(me, ok)
    \/ \E telegramId \in Identities : cashOut(telegramId)
    \/ \E me \in BagToSet(handlers), ok \in BOOLEAN : CashOutAfterFindOne(me, ok)
    \/ \E me \in BagToSet(handlers), ok \in BOOLEAN : CashOutAfterSave(me, ok)
    \/ \E me \in BagToSet(handlers), ok \in BOOLEAN : CashOutAfterCreate(me, ok)

Spec == Init /\ [][Next]_vars

\* Timers that are pending fire, and a database call that _crashGame awaits
\* resolves or rejects.
LiveSpec ==
    /\ Spec
    /\ WF_vars(NextRoundTimer)
    /\ WF_vars(\E c \in crashes, ok \in BOOLEAN : CrashAfterArchive(c, ok))
    /\ WF_vars(\E c \in crashes, ok \in BOOLEAN : CrashAfterLoss(c, ok))

\* A firing of the tick interval that finds the clock advanced since the
\* firing before it, or that ends the flight.
AdvancingTick ==
    /\ updateMultiplier
    /\ round'.elapsed > round.elapsed \/ gameState' = "crashed"

\* The tick interval fires every updateIntervalMs and Date.now() advances
\* between two firings.
TickSpec == Spec /\ WF_vars(AdvancingTick)

\* ------------------------------------------- ProvablyFair called on its own
\* Arguments of the calls: every server seed the digest table distinguishes,
\* the empty and one other client seed, two nonces.
ServerSeeds == 0 .. Len(DigestTable) - 1
ClientSeeds == {0, 1}
Nonces == {0, 1}
Draws == 0 .. DrawRange - 1

\* computeCrashMultiplier(serverSeed, clientSeed, nonce)
CallCompute(serverSeed, clientSeed, nonce) ==
    LET r == computeCrashMultiplier(serverSeed, clientSeed, nonce)
    IN  /\ call' = [NoCall EXCEPT !.fn = "computeCrashMultiplier",
                                  !.serverSeed = serverSeed,
                                  !.clientSeed = r.clientSeed,
                                  !.nonce = r.nonce,
                                  !.num = HmacDraw(serverSeed, clientSeed, nonce),
                                  !.multiplier = r.multiplier,
                                  !.serverSeedHash = r.serverSeedHash]
        /\ UNCHANGED <<engineVars, routes>>

\* computeCrashMultiplier from the point where the draw num has been parsed,
\* for a digest that starts with any 13 hex digits.
CallCurve(num) ==
    /\ call' = [NoCall EXCEPT !.fn = "curve", !.num = num,
                              !.multiplier = CrashMultiplierOf(num)]
    /\ UNCHANGED <<engineVars, routes>>

\* verifyGameResult(serverSeed, clientSeed, nonce, claimedMultiplier)
CallVerify(serverSeed, clientSeed, nonce, claimedMultiplier) ==
    /\ call' = [NoCall EXCEPT !.fn = "verifyGameResult",
                              !.serverSeed = serverSeed,
                              !.clientSeed = clientSeed,
                              !.nonce = nonce,
                              !.claimedMultiplier = claimedMultiplier,
                              !.verified = verifyGameResult(serverSeed, clientSeed,
                                                nonce, claimedMultiplier)]
    /\ UNCHANGED <<engineVars, routes>>

\* One call in a run, made while the engine is idle; verifyGameResult is
\* called with a claimed multiplier that is the computed one, or off by 0.01
\* or 0.02.
FairNext ==
    \/ /\ call = NoCall
       /\ \E serverSeed \in ServerSeeds, clientSeed \in ClientSeeds,
             nonce \in Nonces :
             CallCompute(serverSeed, clientSeed, nonce)
    \/ /\ call = NoCall
       /\ \E num \in Draws : CallCurve(num)
    \/ /\ call = NoCall
       /\ \E serverSeed \in ServerSeeds, clientSeed \in ClientSeeds,
             nonce \in Nonces, off \in 0 .. 2 :
             CallVerify(serverSeed, clientSeed, nonce,
                 computeCrashMultiplier(serverSeed, clientSeed, nonce).multiplier
                     + off)

FairSpec == Init /\ [][FairNext]_vars


\* ============================================================== REST routes
\* Everything of the state that no route touches.
routeFrame == <<call, scenario, running, gameState, round, activeBets, totalRounds,
                roundTimeout, orphanTimeouts, updateTimer, orphanIntervals,
                nextRoundTimers, handlers, crashes, archive, roundCount,
                emitted, published, arrival>>

RouteHandler(route, pc, telegramId, amount, reqId) ==
    [route |-> route, pc |-> pc, telegramId |-> telegramId, amount |-> amount,
     reqId |-> reqId, bal |-> 0]

RouteSuspended(route, pc) ==
    {me \in BagToSet(routes.handlers) : me.route = route /\ me.pc = pc}

\* A request can be received, and its handler can be suspended at an await.
CanStart ==
    /\ routes.calls < MaxRouteCalls
    /\ BagCardinality(routes.handlers) < MaxRouteHandlers

\* The request is answered before any await.
Replied(response) ==
    routes' = [routes EXCEPT !.calls = @ + 1, !.response = response]

\* The handler of the request reaches its first await.
Started(me) ==
    routes' = [routes EXCEPT !.calls = @ + 1, !.handlers = @ (+) One(me)]

\* A handler goes from one await to the next.
Moved(me, next) ==
    routes' = [routes EXCEPT !.handlers = (@ (-) One(me)) (+) One(next)]

\* A handler sends its response and ends.
Done(me, response) ==
    routes' = [routes EXCEPT !.handlers = @ (-) One(me), !.response = response]

\* A document of the Withdraw collection, with its history: the statuses
\* saved to it after creation, and how often its refund raised the balance.
WithdrawDoc(userId, amount) ==
    [userId |-> userId, amount |-> amount, status |-> "pending",
     saved |-> {}, refunds |-> 0]

\* request.status = status; await request.save()
SavedStatus(reqId, status) ==
    [routes.requests EXCEPT ![reqId].status = status,
                            ![reqId].saved = @ \cup {status}]

\* user.balance = (user.balance || 0) + request.amount; await user.save()
Refunded(reqId, bal) ==
    [routes.requests EXCEPT ![reqId].refunds =
        IF bal > balance[routes.requests[reqId].userId] THEN @ + 1 ELSE @]

\* ------------------------------------------------ player: POST /withdraw
withdraw(telegramId, amount) ==
    /\ CanStart
    /\ IF telegramId = 0 \/ amount = 0
       THEN Replied("invalid")
       ELSE Started(RouteHandler("withdraw", "findOne", telegramId, amount, 0))
    /\ UNCHANGED <<balance, ledger, disturbances>>
    /\ UNCHANGED routeFrame

WithdrawAfterFindOne(me, ok) ==
    /\ me \in RouteSuspended("withdraw", "findOne")
    /\ Outcome(ok)
    /\ IF ~ok THEN Done(me, "server_error")
       ELSE IF me.telegramId \notin DOMAIN balance THEN Done(me, "user_not_found")
       ELSE IF balance[me.telegramId] < me.amount THEN Done(me, "insufficient")
       ELSE Moved(me, [me EXCEPT !.pc = "save",
                                 !.bal = balance[me.telegramId] - me.amount])
    /\ UNCHANGED <<balance, ledger>>
    /\ UNCHANGED routeFrame

WithdrawAfterSave(me, ok) ==
    /\ me \in RouteSuspended("withdraw", "save")
    /\ Outcome(ok)
    /\ IF ~ok
       THEN Done(me, "server_error") /\ balance' = balance
       ELSE /\ balance' = [balance EXCEPT ![me.telegramId] = me.bal]
            /\ Moved(me, [me EXCEPT !.pc = "create"])
    /\ UNCHANGED ledger
    /\ UNCHANGED routeFrame

\* Withdraw.create resolves: the request exists, with status 'pending'.
WithdrawAfterCreate(me, ok) ==
    /\ me \in RouteSuspended("withdraw", "create")
    /\ Outcome(ok)
    /\ IF ~ok
       THEN Done(me, "server_error")
       ELSE routes' = [routes EXCEPT
              !.requests = Append(@, WithdrawDoc(me.telegramId, me.amount)),
              !.handlers = (@ (-) One(me))
                  (+) One([me EXCEPT !.pc = "createTx",
                                     !.reqId = Len(routes.requests) + 1])]
    /\ UNCHANGED <<balance, ledger>>
    /\ UNCHANGED routeFrame

WithdrawAfterTransaction(me, ok) ==
    /\ me \in RouteSuspended("withdraw", "createTx")
    /\ Outcome(ok)
    /\ IF ~ok
       THEN Done(me, "server_error") /\ ledger' = ledger
       ELSE /\ ledger' = ledger (+) One(LedgerEntry("withdraw_request",
                                          me.telegramId, me.amount, me.reqId))
            /\ Done(me, "withdraw_requested")
    /\ UNCHANGED balance
    /\ UNCHANGED routeFrame

\* ------------------------------------- admin: POST /withdraw/:id/approve
approve(reqId) ==
    /\ CanStart
    /\ Started(RouteHandler("approve", "findById", 0, 0, reqId))
    /\ UNCHANGED <<balance, ledger, disturbances>>
    /\ UNCHANGED routeFrame

\* Withdraw.findById(...).populate('userId') resolves: the handler holds the
\* request and the user as they are now.
ApproveAfterFindById(me, ok) ==
    /\ me \in RouteSuspended("approve", "findById")
    /\ Outcome(ok)
    /\ IF ~ok THEN Done(me, "server_error")
       ELSE IF me.reqId \notin DOMAIN routes.requests THEN Done(me, "not_found")
       ELSE IF routes.requests[me.reqId].status # "pending"
       THEN Done(me, "not_pending")
       ELSE Moved(me, [me EXCEPT !.pc = "save",
                                 !.telegramId = routes.requests[me.reqId].userId,
                                 !.amount = routes.requests[me.reqId].amount])
    /\ UNCHANGED <<balance, ledger>>
    /\ UNCHANGED routeFrame

ApproveAfterSave(me, ok) ==
    /\ me \in RouteSuspended("approve", "save")
    /\ Outcome(ok)
    /\ IF ~ok
       THEN Done(me, "server_error")
       ELSE routes' = [routes EXCEPT
              !.requests = SavedStatus(me.reqId, "approved"),
              !.handlers = (@ (-) One(me)) (+) One([me EXCEPT !.pc = "createTx"])]
    /\ UNCHANGED <<balance, ledger>>
    /\ UNCHANGED routeFrame

ApproveAfterTransaction(me, ok) ==
    /\ me \in RouteSuspended("approve", "createTx")
    /\ Outcome(ok)
    /\ IF ~ok
       THEN Done(me, "server_error") /\ ledger' = ledger
       ELSE /\ ledger' = ledger (+) One(LedgerEntry("withdraw_approved",
                                          me.telegramId, me.amount, me.reqId))
            /\ Done(me, "withdraw_approved")
    /\ UNCHANGED balance
    /\ UNCHANGED routeFrame

\* ---------------------------------------- admin: POST /withdraw/:id/deny
deny(reqId) ==
    /\ CanStart
    /\ Started(RouteHandler("deny", "findById", 0, 0, reqId))
    /\ UNCHANGED <<balance, ledger, disturbances>>
    /\ UNCHANGED routeFrame

\* Withdraw.findById(...).populate('userId') resolves: the handler holds the
\* request and the user, with the balance the user has now.
DenyAfterFindById(me, ok) ==
    /\ me \in RouteSuspended("deny", "findById")
    /\ Outcome(ok)
    /\ IF ~ok THEN Done(me, "server_error")
       ELSE IF me.reqId \notin DOMAIN routes.requests THEN Done(me, "not_found")
       ELSE IF routes.requests[me.reqId].status # "pending"
       THEN Done(me, "not_pending")
       ELSE Moved(me, [me EXCEPT !.pc = "save",
                                 !.telegramId = routes.requests[me.reqId].userId,
                                 !.amount = routes.requests[me.reqId].amount,
                                 !.bal = balance[routes.requests[me.reqId].userId]])
    /\ UNCHANGED <<balance, ledger>>
    /\ UNCHANGED routeFrame

\* request.save() resolves; the refund is added to the user the handler
\* holds and user.save() is called.
DenyAfterSave(me, ok) ==
    /\ me \in RouteSuspended("deny", "save")
    /\ Outcome(ok)
    /\ IF ~ok
       THEN Done(me, "server_error")
       ELSE routes' = [routes EXCEPT
              !.requests = SavedStatus(me.reqId, "denied"),
              !.handlers = (@ (-) One(me))
                  (+) One([me EXCEPT !.pc = "saveUser",
                                     !.bal = me.bal + me.amount])]
    /\ UNCHANGED <<balance, ledger>>
    /\ UNCHANGED routeFrame

DenyAfterUserSave(me, ok) ==
    /\ me \in RouteSuspended("deny", "saveUser")
    /\ Outcome(ok)
    /\ IF ~ok
       THEN Done(me, "server_error") /\ balance' = balance
       ELSE /\ balance' = [balance EXCEPT ![me.telegramId] = me.bal]
            /\ routes' = [routes EXCEPT
                 !.requests = Refunded(me.reqId, me.bal),
                 !.handlers = (@ (-) One(me))
                     (+) One([me EXCEPT !.pc = "createTx"])]
    /\ UNCHANGED ledger
    /\ UNCHANGED routeFrame

DenyAfterTransaction(me, ok) ==
    /\ me \in RouteSuspended("deny", "createTx")
    /\ Outcome(ok)
    /\ IF ~ok
       THEN Done(me, "server_error") /\ ledger' = ledger
       ELSE /\ ledger' = ledger (+) One(LedgerEntry("withdraw_denied_refund",
                                          me.telegramId, me.amount, me.reqId))
            /\ Done(me, "withdraw_denied_and_refunded")
    /\ UNCHANGED balance
    /\ UNCHANGED routeFrame

\* -------------------------------------------------- player: POST /cashout
restCashout(telegramId, payout) ==
    /\ CanStart
    /\ IF telegramId = 0
       THEN Replied("invalid")
       ELSE Started(RouteHandler("cashout", "findOne", telegramId, payout, 0))
    /\ UNCHANGED <<balance, ledger, disturbances>>
    /\ UNCHANGED routeFrame

RestCashoutAfterFindOne(me, ok) ==
    /\ me \in RouteSuspended("cashout", "findOne")
    /\ Outcome(ok)
    /\ IF ~ok THEN Done(me, "server_error")
       ELSE IF me.telegramId \notin DOMAIN balance THEN Done(me, "not_found")
       ELSE Moved(me, [me EXCEPT !.pc = "save",
                                 !.bal = balance[me.telegramId] + me.amount])
    /\ UNCHANGED <<balance, ledger>>
    /\ UNCHANGED routeFrame

RestCashoutAfterSave(me, ok) ==
    /\ me \in RouteSuspended("cashout", "save")
    /\ Outcome(ok)
    /\ IF ~ok
       THEN Done(me, "server_error") /\ balance' = balance
       ELSE /\ balance' = [balance EXCEPT ![me.telegramId] = me.bal]
            /\ Moved(me, [me EXCEPT !.pc = "createTx"])
    /\ UNCHANGED ledger
    /\ UNCHANGED routeFrame

RestCashoutAfterCreate(me, ok) ==
    /\ me \in RouteSuspended("cashout", "createTx")
    /\ Outcome(ok)
    /\ IF ~ok
       THEN Done(me, "server_error") /\ ledger' = ledger
       ELSE /\ ledger' = ledger (+) One(LedgerEntry("cashout", me.telegramId,
                                                     me.amount, 0))
            /\ Done(me, "ok")
    /\ UNCHANGED balance
    /\ UNCHANGED routeFrame

\* The routes on their own, while the engine is idle.
RouteNext ==
    \/ \E telegramId \in Identities \cup {0}, amount \in WithdrawAmounts :
          withdraw(telegramId, amount)
    \/ \E me \in BagToSet(routes.handlers), ok \in BOOLEAN :
          WithdrawAfterFindOne(me, ok)
    \/ \E me \in BagToSet(routes.handlers), ok \in BOOLEAN :
          WithdrawAfterSave(me, ok)
    \/ \E me \in BagToSet(routes.handlers), ok \in BOOLEAN :
          WithdrawAfterCreate(me, ok)
    \/ \E me \in BagToSet(routes.handlers), ok \in BOOLEAN :
          WithdrawAfterTransaction(me, ok)
    \/ \E reqId \in 1 .. MaxRouteCalls : approve(reqId)
    \/ \E me \in BagToSet(routes.handlers), ok \in BOOLEAN :
          ApproveAfterFindById(me, ok)
    \/ \E me \in BagToSet(routes.handlers), ok \in BOOLEAN :
          ApproveAfterSave(me, ok)
    \/ \E me \in BagToSet(routes.handlers), ok \in BOOLEAN :
          ApproveAfterTransaction(me, ok)
    \/ \E reqId \in 1 .. MaxRouteCalls : deny(reqId)
    \/ \E me \in BagToSet(routes.handlers), ok \in BOOLEAN :
          DenyAfterFindById(me, ok)
    \/ \E me \in BagToSet(routes.handlers), ok \in BOOLEAN :
          DenyAfterSave(me, ok)
    \/ \E me \in BagToSet(routes.handlers), ok \in BOOLEAN :
          DenyAfterUserSave(me, ok)
    \/ \E me \in BagToSet(routes.handlers), ok \in BOOLEAN :
          DenyAfterTransaction(me, ok)
    \/ \E telegramId \in Identities \cup {0}, payout \in Payouts :
          restCashout(telegramId, payout)
    \/ \E me \in BagToSet(routes.handlers), ok \in BOOLEAN :
          RestCashoutAfterFindOne(me, ok)
    \/ \E me \in BagToSet(routes.handlers), ok \in BOOLEAN :
          RestCashoutAfterSave(me, ok)
    \/ \E me \in BagToSet(routes.handlers), ok \in BOOLEAN :
          RestCashoutAfterCreate(me, ok)

RouteSpec == Init /\ [][RouteNext]_vars


\* ================================================================== claims
Events == {emitted[i] : i \in DOMAIN emitted}

\* Ledger entries of one type for one account and one round.
Entries(type, userId, roundId) ==
    LET S == {e \in BagToSet(ledger) :
                e.type = type /\ e.userId = userId /\ e.roundId = roundId}
    IN  BagCardinality([e \in S |-> ledger[e]])

RoundIds == 1 .. MaxRounds + 1

\* C1: a cashOut that arrives during flight for an identity holding a bet
\* marks the bet and goes on to the credit when the bet is not yet cashed out,
\* and is rejected with ALREADY_CASHED, changing nothing, when it is; no bet
\* object has cashedOut set more than once.
C1_CashOutAtMostOnce ==
    [][ /\ \A id \in DOMAIN activeBets' : activeBets'[id].flips <= 1
        /\ \A id \in Identities :
             ( /\ arrival'.op = "cashOut"
               /\ arrival'.telegramId = id
               /\ gameState = "flying"
               /\ Key(id) \in DOMAIN activeBets )
             => IF activeBets[Key(id)].cashedOut
                THEN /\ emitted' = << ErrorEvent("ALREADY_CASHED") >>
                     /\ activeBets' = activeBets
                     /\ handlers' = handlers
                ELSE /\ activeBets'[Key(id)].cashedOut
                     /\ activeBets'[Key(id)].flips = 1
                     /\ emitted' = << >>
                     /\ \E me \in BagToSet(handlers') :
                           /\ me.op = "cashOut" /\ me.pc = "findOne"
                           /\ me.telegramId = id
                           /\ Count(handlers', me) = Count(handlers, me) + 1
      ]_vars

\* C1 witness: during flight a second cashOut for a bet already cashed out
\* has just been rejected.
C1_Witness ==
    /\ arrival = [op |-> "cashOut", telegramId |-> 1]
    /\ gameState = "flying"
    /\ Key(1) \in DOMAIN activeBets
    /\ activeBets[Key(1)].flips = 1
    /\ emitted = << ErrorEvent("ALREADY_CASHED") >>

\* C2: for every identity and round the ledger holds at most one 'bet' entry
\* (one per stored bet and per debit).
C2_OneBetPerIdentity ==
    \A id \in Identities, r \in RoundIds : Entries("bet", id, r) <= 1

\* C3: once settlement of the current round has completed and no player
\* handler is still suspended, every bet in the registry has exactly one
\* settlement entry for that round: 'win' if it is cashed out, 'loss' if not.
C3_OneSettlementEntryPerBet ==
    (Count(published, <<"settled", round.id>>) > 0 /\ handlers = EmptyBag) =>
        \A id \in DOMAIN activeBets :
            /\ Entries("win", id, round.id) + Entries("loss", id, round.id) = 1
            /\ activeBets[id].cashedOut <=> Entries("win", id, round.id) = 1

\* C4: for every round the archive save is attempted at most once, and exactly
\* once as soon as the round is crashed; the crashed event and the loss
\* processing happen at most once for it and only after its archive save was
\* attempted.
C4_SettlementExactlyOnce ==
    \A r \in RoundIds :
        /\ Count(published, <<"archive:attempt", r>>) <= 1
        /\ round.id = r /\ gameState = "crashed"
              => Count(published, <<"archive:attempt", r>>) = 1
        /\ Count(published, <<"game:crashed", r>>)
              <= Count(published, <<"archive:attempt", r>>)
        /\ Count(published, <<"losses:start", r>>)
              <= Count(published, <<"archive:attempt", r>>)

\* C5: no step changes the targetMultiplier of the round it leaves in place.
C5_TargetNeverChanges ==
    [][ (round.id # 0 /\ round'.id = round.id)
           => round'.targetMultiplier = round.targetMultiplier ]_vars

\* C6: the multiplier of every crashed event and of every archive record
\* verifies against the server seed revealed with it.
C6_RevealedOutcomeVerifies ==
    /\ \A e \in Events : e.kind = "game:crashed"
          => verifyGameResult(e.serverSeed, 0, 0, e.finalMultiplier)
    /\ \A a \in archive :
          verifyGameResult(a.serverSeed, 0, 0, a.finalMultiplier)

\* C7: no event other than game:crashed carries a server seed or a target
\* multiplier.
C7_SecretsOnlyInCrashed ==
    \A e \in Events : e.kind # "game:crashed"
        => {"serverSeed", "targetMultiplier"} \cap DOMAIN e = {}

\* C8: the seed hash of the round is the hash of its server seed; the
\* betting-phase event carries that hash, for a round whose target is the one
\* derived from the seed, and is emitted while the registry is empty; every
\* bet of the registry was stored during the current round, after that event.
C8_CommitBeforeBets ==
    /\ round.id # 0 => round.seedHash = hashServerSeed(round.serverSeed)
    /\ \A e \in Events : e.kind = "game:bettingPhase"
          => /\ e.roundId = round.id
             /\ e.seedHash = hashServerSeed(round.serverSeed)
             /\ round.targetMultiplier
                  = computeCrashMultiplier(round.serverSeed, 0, 0).multiplier
             /\ DOMAIN activeBets = {}
    /\ \A id \in DOMAIN activeBets :
          /\ activeBets[id].insertedIn = round.id
          /\ Count(published, <<"game:bettingPhase", round.id>>) >= 1

\* C8 witness: a bet sits in the registry of the second round.
C8_Witness ==
    /\ round.id = 2
    /\ Key(1) \in DOMAIN activeBets
    /\ activeBets[Key(1)].insertedIn = 2

\* C9: a placeBet that arrives while the phase is not betting is answered
\* with INVALID_PHASE and changes no bet, balance, ledger entry or handler.
C9_PlaceBetWrongPhase ==
    [][ (arrival'.op = "placeBet" /\ gameState # "betting")
           => /\ emitted' = << ErrorEvent("INVALID_PHASE") >>
              /\ UNCHANGED <<activeBets, balance, ledger, handlers>> ]_vars

\* C9 witness: a placeBet has just been rejected in the crashed phase.
C9_Witness ==
    /\ arrival.op = "placeBet"
    /\ gameState = "crashed"
    /\ emitted = << ErrorEvent("INVALID_PHASE") >>

\* C10 as stated: every cashOut that arrives while the phase is not flying is
\* answered with INVALID_PHASE.
C10_CashOutWrongPhase_Original ==
    [][ (arrival'.op = "cashOut" /\ gameState # "flying")
           => emitted' = << ErrorEvent("INVALID_PHASE") >> ]_vars

\* C10 amended: a cashOut that arrives while the phase is not flying changes
\* nothing and is answered with NO_ACTIVE_BET when the identity holds no bet,
\* with ALREADY_CASHED when its bet is cashed out, and with INVALID_PHASE
\* otherwise.
C10_CashOutWrongPhase ==
    [][ \A id \in Identities :
          (arrival'.op = "cashOut" /\ arrival'.telegramId = id
             /\ gameState # "flying")
          => /\ emitted' = << ErrorEvent(
                   IF Key(id) \notin DOMAIN activeBets THEN "NO_ACTIVE_BET"
                   ELSE IF activeBets[Key(id)].cashedOut THEN "ALREADY_CASHED"
                   ELSE "INVALID_PHASE") >>
             /\ UNCHANGED <<activeBets, balance, ledger, handlers>> ]_vars

\* C10 witness: a cashOut for a bet not cashed out has just been rejected
\* with INVALID_PHASE in the betting phase.
C10_Witness ==
    /\ arrival.op = "cashOut"
    /\ gameState = "betting"
    /\ Key(arrival.telegramId) \in DOMAIN activeBets
    /\ ~activeBets[Key(arrival.telegramId)].cashedOut
    /\ emitted = << ErrorEvent("INVALID_PHASE") >>

\* C11: the phase only moves waiting -> betting at the first round, then
\* betting -> flying and flying -> crashed within one round and crashed ->
\* betting into a new round; no step puts a new round in place of one that
\* has not crashed.
C11_PhaseOrder ==
    [][ \/ (gameState' = gameState /\ round'.id = round.id)
        \/ (gameState = "waiting" /\ gameState' = "betting")
        \/ (gameState = "betting" /\ gameState' = "flying"
               /\ round'.id = round.id)
        \/ (gameState = "flying" /\ gameState' = "crashed"
               /\ round'.id = round.id)
        \/ (gameState = "crashed" /\ gameState' = "betting"
               /\ round'.id # round.id) ]_vars

\* C12: while a round flies, no step lowers its currentMultiplier.
C12_MultiplierNonDecreasing ==
    [][ (gameState = "flying" /\ round.id # 0 /\ round'.id = round.id)
           => round'.currentMultiplier >= round.currentMultiplier ]_vars

\* C13: whenever a round exists, 1.00 <= currentMultiplier <= targetMultiplier.
C13_MultiplierWithinTarget ==
    round.id # 0 => /\ 100 <= round.currentMultiplier
                    /\ round.currentMultiplier <= round.targetMultiplier

\* The value 0.96 / e in hundredths is Numerator / num.
CurveNumerator == (100 - HouseEdgePct) * DrawRange

CurveCalled == call.fn \in {"curve", "computeCrashMultiplier"}

\* C14 as stated: for every draw the multiplier lies in [1.01, 1000].
C14_MultiplierRange_Original ==
    CurveCalled =>
        (MinMultiplier <= call.multiplier /\ call.multiplier <= MaxMultiplierCap)

\* C14 amended: for every draw other than 0 the multiplier lies in
\* [1.01, 1000] and is 1.01, 1000, or the whole number of hundredths nearest
\* to 0.96 / e; for the draw 0 it is 1.00.
C14_MultiplierRange ==
    CurveCalled =>
        IF call.num = 0
        THEN call.multiplier = 100
        ELSE /\ MinMultiplier <= call.multiplier
             /\ call.multiplier <= MaxMultiplierCap
             /\ \/ call.multiplier = MinMultiplier
                \/ call.multiplier = MaxMultiplierCap
                \/ 2 * Abs(call.multiplier * call.num - CurveNumerator) <= call.num

\* C14 witness: a draw whose multiplier is rounded, not clamped.
C14_Witness ==
    /\ call.fn = "curve"
    /\ call.num # 0
    /\ call.multiplier \notin {MinMultiplier, MaxMultiplierCap}
    /\ CurveNumerator % call.num # 0

\* C15: for the draw 0 the multiplier is 1.00.
C15_DegenerateDraw ==
    (CurveCalled /\ call.num = 0) => call.multiplier = 100

\* C15 witness: computeCrashMultiplier was called with a seed whose draw is 0.
C15_Witness ==
    /\ call.fn = "computeCrashMultiplier"
    /\ call.num = 0
    /\ call.multiplier = 100

C17_SmokeTest ==
    (call.fn = "computeCrashMultiplier" /\ call.clientSeed = 0)
       => /\ call.multiplier >= 100
          /\ call.serverSeedHash = hashServerSeed(call.serverSeed)

\* C17 witness: the call of the smoke test, for a seed that is not 0.
C17_Witness ==
    /\ call.fn = "computeCrashMultiplier"
    /\ call.clientSeed = 0
    /\ call.nonce = 0
    /\ call.serverSeed # 0
    /\ call.multiplier >= 100

\* C18: once the crash sequence of a round has ended, whether or not the
\* archive save or a ledger write failed, the round's crashed event has been
\* published and its losing bets have been processed.
C18_SettlementNotAborted ==
    \A r \in RoundIds :
        ( \/ Count(published, <<"settled", r>>) > 0
          \/ Count(published, <<"settlement:aborted", r>>) > 0 )
        => /\ Count(published, <<"game:crashed", r>>) > 0
           /\ Count(published, <<"losses:start", r>>) > 0

\* C19: when a round is crashed and the engine is running, a later round is
\* put in place (its betting phase opens) unless the engine is stopped, for
\* every outcome of the database calls; stated for the rounds after which the
\* run may still create one.
C19_NextRoundOpens ==
    \A r \in RoundIds :
        (gameState = "crashed" /\ round.id = r /\ running /\ r < scenario.rounds)
            ~> (round.id > r \/ ~running)

\* C19 witness: the second round is in its betting phase after the archive
\* save of the first one was rejected.
C19_Witness ==
    /\ round.id = 2
    /\ gameState = "betting"
    /\ running
    /\ Count(published, <<"settlement:aborted", 1>>) > 0

\* C20: when a cashOut handler ends with SERVER_ERROR, the bet of its
\* identity, if the registry still holds one, is left with cashedOut = false
\* and payout = 0.
C20_CashOutRolledBack ==
    [][ \A me \in BagToSet(handlers) :
          ( /\ me.op = "cashOut"
            /\ Count(handlers', me) < Count(handlers, me)
            /\ ErrorEvent("SERVER_ERROR") \in Events'
            /\ Key(me.telegramId) \in DOMAIN activeBets' )
          => /\ ~activeBets'[Key(me.telegramId)].cashedOut
             /\ activeBets'[Key(me.telegramId)].payout = 0 ]_vars

\* C21: a placeBet message that arrives outside the betting phase, with an
\* amount that is missing or below 1, or from an identity that already has a
\* bet in the registry, is answered by one error event and nothing else: the
\* registry, the balances, the ledger and the set of suspended handlers are
\* what they were.
C21_RejectedPlaceBetChangesNothing ==
    [][\A id \in Identities, amount \in scenario.amounts :
          (/\ placeBet(id, amount)
           /\ \/ gameState # "betting"
              \/ amount < 1
              \/ Key(id) \in DOMAIN activeBets)
          => /\ \E code \in {"INVALID_PHASE", "INVALID_BET", "EXISTING_BET"} :
                    emitted' = << ErrorEvent(code) >>
             /\ UNCHANGED <<activeBets, balance, ledger, handlers>>]_vars

\* A second placeBet of an identity was rejected while its bet is registered.
C21_Witness ==
    /\ arrival = [op |-> "placeBet", telegramId |-> 1]
    /\ emitted = << ErrorEvent("EXISTING_BET") >>
    /\ Key(1) \in DOMAIN activeBets
    /\ gameState = "betting"

\* C22: every bet in the registry has an amount within [minBet, maxBet]: a
\* placeBet with an amount outside the limits registers no bet.
C22_AmountsWithinLimits ==
    \A k \in DOMAIN activeBets :
        /\ activeBets[k].amount >= minBet
        /\ activeBets[k].amount <= maxBet

\* C23: the payout recorded on a cashed-out bet is amount * multiplier at two
\* decimal places: in hundredths, payout * 100 = amount * cashoutMultiplier.
C23_PayoutToTheHundredth ==
    \A k \in DOMAIN activeBets :
        activeBets[k].cashedOut =>
            activeBets[k].payout * 100
                = activeBets[k].amount * activeBets[k].cashoutMultiplier

\* C24: while the engine is stopped, no step publishes game:takeoff or
\* game:multiplierUpdate, and no firing of the betting timer or of a tick
\* interval changes the phase of the round.
C24_StoppedTimersSilent ==
    [][~running =>
          /\ \A e \in Events' :
                 e.kind \notin {"game:takeoff", "game:multiplierUpdate"}
          /\ (startFlight \/ updateMultiplier) =>
                 (gameState' = gameState /\ round'.phase = round.phase)]_vars

\* C25: while the engine is stopped and is not being started again, no step
\* creates a round object or publishes game:bettingPhase, whatever the crash
\* sequence and the timers that were pending at the stop still do.
C25_NoRoundWhileStopped ==
    [][(~running /\ ~running') =>
          /\ round'.id = round.id
          /\ roundCount' = roundCount
          /\ \A e \in Events' : e.kind # "game:bettingPhase"]_vars

\* The engine was stopped after a crash; the settlement of the round ran to
\* completion and its cooldown timer has fired, and the crashed round is
\* still the current one although another round could be created.
C25_Witness ==
    /\ ~running
    /\ gameState = "crashed"
    /\ Count(published, <<"settled", round.id>>) > 0
    /\ nextRoundTimers = 0
    /\ crashes = {}
    /\ roundCount < scenario.rounds

\* C26: a round that is in flight while the engine is stopped is not crashed
\* by any step: its phase does not become crashed and GameRound.create is not
\* called for it.
C26_StoppedFlightNotArchived ==
    [][(~running /\ gameState = "flying") =>
          /\ gameState' # "crashed"
          /\ Count(published', <<"archive:attempt", round.id>>)
                = Count(published, <<"archive:attempt", round.id>>)]_vars

\* C27: a game:multiplierUpdate event is published for a round only while no
\* game:crashed event has been published for that round.
C27_NoUpdateAfterCrashed ==
    \A e \in Events :
        e.kind = "game:multiplierUpdate" =>
            Count(published, <<"game:crashed", e.roundId>>) = 0

\* No bet has been charged so far in the run.
NoBetPlaced == \A e \in BagToSet(ledger) : e.type # "bet"

C29_PayoutCreditedOnce ==
    [][/\ crashes' # crashes => balance' = balance
       /\ balance' # balance =>
             \E me \in BagToSet(handlers) :
                 /\ me.pc = "save"
                 /\ handlers' = (handlers (-) One(me))
                                   (+) One([me EXCEPT !.pc = "create",
                                                      !.roundId = round.id])
                 /\ balance' = [balance EXCEPT ![me.telegramId] = me.bal]
       /\ \A me \in BagToSet(handlers') :
             (/\ me.op = "cashOut"
              /\ me.pc = "findOne"
              /\ Count(handlers', me) > Count(handlers, me))
             => /\ handlers' = handlers (+) One(me)
                /\ Key(me.telegramId) \in DOMAIN activeBets
                /\ activeBets[Key(me.telegramId)].flips = 0
                /\ activeBets'[Key(me.telegramId)].flips = 1
                /\ activeBets'[Key(me.telegramId)].payout = me.payout]_vars

\* A bet was cashed out and credited, its win entry is written, and the crash
\* sequence of the round has ended.
C29_Witness ==
    /\ Key(1) \in DOMAIN activeBets
    /\ activeBets[Key(1)].cashedOut
    /\ activeBets[Key(1)].payout > 0
    /\ handlers = EmptyBag
    /\ Entries("win", 1, round.id) = 1
    /\ balance[1] = scenario.balance - activeBets[Key(1)].amount
                                    + activeBets[Key(1)].payout
    /\ Count(published, <<"settled", round.id>>) > 0

\* C30: a step that stores a bet in the registry (and announces it with
\* game:betPlaced) is taken only while the phase is betting.
C30_InsertOnlyWhileBetting ==
    [][(\E e \in Events' : e.kind = "game:betPlaced") =>
          (gameState = "betting" /\ round.phase = "betting")]_vars

\* C31: while a round stays crashed, every bet of the registry keeps its
\* cashedOut flag, its payout and its cashout multiplier.
C31_BetsFrozenOnceCrashed ==
    [][(gameState = "crashed" /\ gameState' = "crashed" /\ round'.id = round.id)
         => \A k \in DOMAIN activeBets :
               /\ k \in DOMAIN activeBets'
               /\ activeBets'[k].cashedOut = activeBets[k].cashedOut
               /\ activeBets'[k].payout = activeBets[k].payout
               /\ activeBets'[k].cashoutMultiplier
                     = activeBets[k].cashoutMultiplier]_vars

\* C32: while the engine runs and ticks fire, a round in flight is eventually
\* crashed (unless the engine is stopped first), for every target the run
\* draws (1.00 included), every jitter and every exponent.
C32_FlightEnds ==
    \A r \in RoundIds :
        (gameState = "flying" /\ round.id = r /\ running)
            ~> ((gameState = "crashed" /\ round.id = r) \/ ~running)

\* C33: game:betPlaced is published only while the current round has not
\* taken off, and game:cashOut only while no game:crashed event has been
\* published for the current round.
C33_EventsInPhaseOrder ==
    [][\A e \in Events' :
          /\ e.kind = "game:betPlaced" =>
                Count(published, <<"game:takeoff", round.id>>) = 0
          /\ e.kind = "game:cashOut" =>
                Count(published, <<"game:crashed", round.id>>) = 0]_vars

\* C34: in the first round, once no handler is suspended, an identity without
\* a bet in the registry has its opening balance and an identity with a bet
\* that is not cashed out has its opening balance less the amount of the bet.
C34_StakeMatchesBet ==
    (handlers = EmptyBag /\ roundCount <= 1) =>
        \A id \in Identities :
            IF Key(id) \notin DOMAIN activeBets
            THEN balance[id] = scenario.balance
            ELSE ~activeBets[Key(id)].cashedOut =>
                    balance[id] = scenario.balance - activeBets[Key(id)].amount

\* C35: no betting timer and no tick interval is pending besides the one whose
\* handle the engine holds, and no round takes off twice.
C35_OneRoundLoop ==
    /\ orphanTimeouts = 0
    /\ orphanIntervals = 0
    /\ \A r \in RoundIds : Count(published, <<"game:takeoff", r>>) <= 1

\* C36: a placeBet message that arrives while the engine is stopped is
\* rejected: it starts no handler, so that no balance is debited and no bet is
\* registered for it.
C36_NoBetWhileStopped ==
    [][\A id \in Identities, amount \in scenario.amounts :
          (~running /\ placeBet(id, amount)) =>
              /\ handlers' = handlers
              /\ \E e \in Events' : e.kind = "error"]_vars

\* C37: whenever a round exists, round.phase and gameState are the same phase.
C37_PhaseFieldsAgree ==
    round.id # 0 => round.phase = gameState

\* A round has gone through betting and flight and is crashed in both fields.
C37_Witness ==
    /\ round.id # 0
    /\ round.phase = "crashed"
    /\ gameState = "crashed"
    /\ Count(published, <<"game:takeoff", round.id>>) > 0

\* C38: a withdraw request is resolved at most once.  Whatever the
\* interleaving of the admin's approve and deny calls on a pending request,
\* the request gets one resolution (it is never saved both as approved and
\* as denied), its amount is added to the user's balance at most once, and
\* no request is both approved and refunded.
C38_WithdrawResolvedOnce ==
    \A reqId \in DOMAIN routes.requests :
        LET request == routes.requests[reqId]
        IN  /\ Cardinality(request.saved) <= 1
            /\ request.refunds <= 1
            /\ ~("approved" \in request.saved /\ request.refunds > 0)

\* C39: a balance is credited with a game payout only by the cashOut of a
\* bet the identity holds in the registry of the round, and by that bet's
\* computed payout.  Every step that raises a balance is either the admin's
\* refund of a denied withdraw request or the user.save() of an engine cashOut
\* handler whose bet is in the registry and whose payout is the amount added.
C39_PayoutOnlyForHeldBet ==
    [][\A id \in Identities :
          (/\ balance'[id] > balance[id]
           /\ ~ \E me \in RouteSuspended("deny", "saveUser") :
                   DenyAfterUserSave(me, TRUE))
              => \E me \in Suspended("cashOut", "save") :
                    /\ me.telegramId = id
                    /\ Key(id) \in DOMAIN activeBets
                    /\ activeBets[Key(id)].cashedOut
                    /\ balance'[id] = balance[id] + me.payout]_vars

====
